---- MODULE Spec2Model ----
(***************************************************************************)
(* Multi-agent controller (agent_system.py) and its driver (run.py):       *)
(* per-agent or shared replay buffers, act / update / add_to_buffer /      *)
(* reset fan-out, checkpoint save and replay-based load, and the Workspace *)
(* that constructs a controller, optionally resumes, and trains.           *)
(***************************************************************************)
EXTENDS Integers, Sequences, FiniteSets, TLC

\* ------------------------------------------------------------------ bounds
NumAgents == 2        \* |agent_ids|
MaxCap == 2           \* largest cfg.replay_buffer_capacity explored
MaxAdds == 4          \* add_to_buffer calls per controller in the API driver
MaxUpdates == 1       \* controller update calls per controller in the API driver
MaxTrainSteps == 3    \* largest cfg.num_train_steps explored
MaxProcesses == 2     \* processes (controller constructions) per behaviour
MaxSeedSteps == 1     \* largest cfg.num_seed_steps explored
MaxEvalFrequency == 2 \* largest cfg.eval_frequency explored
MaxEvalEpisodes == 1  \* largest cfg.num_eval_episodes explored
MaxHorizon == 2       \* largest env.horizon explored
MaxOverrun == 1       \* steps past the horizon by which the environment reports done

\* ------------------------------------------------------------ identities
\* env.agents: the ordered agent ids (run.py:45)
agent_ids == [i \in 1..NumAgents |-> i]

AgentSet == {agent_ids[i] : i \in 1..Len(agent_ids)}

\* Key of the single adapter / store of the Shared variant (self.agent,
\* self.replay_buffer).
SharedKey == 0

Variants == {"individual", "shared"}

\* Keys of the adapters and of the stores a controller owns.
Keys(variant) == IF variant = "individual" THEN AgentSet ELSE {SharedKey}

\* Key used for agent a.
KeyOf(variant, a) == IF variant = "individual" THEN a ELSE SharedKey

\* ------------------------------------------------------- Python helpers
\* Python's `not x` on a 0/1 number, stored back into a float array as 0/1.
PyNot(x) == IF x = 0 THEN 1 ELSE 0

\* Contents of a preallocated array slot that was never written.
Zero == <<>>

\* ------------------------------------------------------ Transition Store
\* ReplayBuffer(obs_shape, action_shape, capacity, device)
NewReplayBuffer(capacity) ==
    [capacity |-> capacity,
     obses |-> [i \in 0..(capacity - 1) |-> Zero],
     next_obses |-> [i \in 0..(capacity - 1) |-> Zero],
     actions |-> [i \in 0..(capacity - 1) |-> Zero],
     rewards |-> [i \in 0..(capacity - 1) |-> Zero],
     not_dones |-> [i \in 0..(capacity - 1) |-> 0],
     not_dones_no_max |-> [i \in 0..(capacity - 1) |-> 0],
     idx |-> 0,
     full |-> FALSE,
     added |-> <<>>]     \* history: every transition handed to add, in order

\* The record add() is handed.
Transition(obs, action, reward, next_obs, done, done_no_max) ==
    [obs |-> obs, action |-> action, reward |-> reward, next_obs |-> next_obs,
     not_done |-> PyNot(done), not_done_no_max |-> PyNot(done_no_max)]

\* Mutant: the cursor wraps one slot late, so the last slot is never reused.
ReplayBufferAdd_NoWrap(buf, obs, action, reward, next_obs, done, done_no_max) ==
    LET next == IF buf.idx + 1 >= buf.capacity THEN buf.idx ELSE buf.idx + 1
    IN [buf EXCEPT !.obses[buf.idx] = obs,
                   !.next_obses[buf.idx] = next_obs,
                   !.actions[buf.idx] = action,
                   !.rewards[buf.idx] = reward,
                   !.not_dones[buf.idx] = PyNot(done),
                   !.not_dones_no_max[buf.idx] = PyNot(done_no_max),
                   !.idx = next,
                   !.full = buf.full \/ next = 0,
                   !.added = Append(buf.added,
                       Transition(obs, action, reward, next_obs, done, done_no_max))]

\* ReplayBuffer.add: write the cursor slot, advance the cursor modulo the
\* capacity, set full the first time the cursor wraps.
ReplayBufferAdd(buf, obs, action, reward, next_obs, done, done_no_max) ==
    LET next == (buf.idx + 1) % buf.capacity
    IN [buf EXCEPT !.obses[buf.idx] = obs,
                   !.next_obses[buf.idx] = next_obs,
                   !.actions[buf.idx] = action,
                   !.rewards[buf.idx] = reward,
                   !.not_dones[buf.idx] = PyNot(done),
                   !.not_dones_no_max[buf.idx] = PyNot(done_no_max),
                   !.idx = next,
                   !.full = buf.full \/ next = 0,
                   !.added = Append(buf.added,
                       Transition(obs, action, reward, next_obs, done, done_no_max))]

\* ReplayBuffer size: capacity if full else the cursor.
ReplayBufferSize(buf) == IF buf.full THEN buf.capacity ELSE buf.idx

\* The transition held in slot i.
SlotOf(buf, i) ==
    [obs |-> buf.obses[i], action |-> buf.actions[i], reward |-> buf.rewards[i],
     next_obs |-> buf.next_obses[i], not_done |-> buf.not_dones[i],
     not_done_no_max |-> buf.not_dones_no_max[i]]

\* What sample() can return: the slots with index in [0, size).
Retrievable(buf) == {SlotOf(buf, i) : i \in 0..(ReplayBufferSize(buf) - 1)}

\* The raw arrays np.savez writes for one store.
Arrays(buf) ==
    [obses |-> buf.obses, next_obses |-> buf.next_obses, actions |-> buf.actions,
     rewards |-> buf.rewards, not_dones |-> buf.not_dones,
     not_dones_no_max |-> buf.not_dones_no_max]

\* ---------------------------------------------------------- Agent Adapter
\* A freshly instantiated learning agent: in training behaviour, with its
\* initial parameters and optimizer state.
NewAdapter == [training |-> TRUE, params |-> 0, optims |-> 0]

\* utils.eval_mode.__enter__ / utils.train_mode.__enter__: model.train(flag)
ModeEnter(adapter, flag) == [adapter EXCEPT !.training = flag]

\* Mutant: the scope's exit leaves the flag as the scope set it.
ModeExit_Leak(adapter, prev) == adapter

\* utils.eval_mode.__exit__ / utils.train_mode.__exit__: model.train(prev)
ModeExit(adapter, prev) == [adapter EXCEPT !.training = prev]

\* The action an adapter's act(obs, sample) returns.
AdapterAct(key, obs, sample) == <<key, obs, sample>>

\* One learning update: consumes a sample of the store, changes the
\* parameters and the optimizer state.
AdapterUpdate(adapter) ==
    [adapter EXCEPT !.params = @ + 1, !.optims = @ + 1]

\* ------------------------------------------------- controller construction
\* IndividualMultiAgent.__init__: one adapter and one store per agent id.
NewIndividualMultiAgent(replay_buffer_cap, mode) ==
    [variant |-> "individual",
     mode |-> mode,
     agents |-> [a \in AgentSet |-> NewAdapter],
     replay_buffers |-> [a \in AgentSet |-> NewReplayBuffer(replay_buffer_cap)]]

\* SharedMultiAgent.__init__: one adapter and one store for all agent ids.
NewSharedMultiAgent(replay_buffer_cap, mode) ==
    [variant |-> "shared",
     mode |-> mode,
     agents |-> [k \in {SharedKey} |-> NewAdapter],
     replay_buffers |-> [k \in {SharedKey} |-> NewReplayBuffer(replay_buffer_cap)]]

\* Workspace.__init__ selecting and constructing the controller
\* (cfg.multi_agent_mode, cfg.replay_buffer_capacity, cfg.mode).
NewMultiAgent(variant, capacity, mode) ==
    IF variant = "individual"
    THEN NewIndividualMultiAgent(capacity, mode)
    ELSE NewSharedMultiAgent(capacity * Len(agent_ids), mode)

\* Result of a controller call that raised before doing anything.
Raised(self, op, err) ==
    [self |-> self, op |-> op, err |-> err, actions |-> <<>>, calls |-> <<>>,
     step |-> -1]

\* Result of a controller call.
Returned(self, op, actions, calls) ==
    [self |-> self, op |-> op, err |-> "none", actions |-> actions,
     calls |-> calls, step |-> -1]

\* ---------------------------------------------------------------- reset
RECURSIVE IndividualResetLoop(_, _)
\* for agent in self.agent_ids: self.agents[agent].reset()
IndividualResetLoop(i, calls) ==
    IF i > Len(agent_ids) THEN calls
    ELSE IndividualResetLoop(i + 1, Append(calls, [adapter |-> agent_ids[i]]))

\* IndividualMultiAgent.reset
IndividualReset(self) ==
    Returned(self, "reset", <<>>, IndividualResetLoop(1, <<>>))

\* Mutant: the shared adapter is reset once per agent id.
SharedReset_PerAgent(self) ==
    Returned(self, "reset", <<>>, [i \in 1..Len(agent_ids) |-> [adapter |-> SharedKey]])

\* SharedMultiAgent.reset: self.agent.reset()
SharedReset(self) ==
    Returned(self, "reset", <<>>, <<[adapter |-> SharedKey]>>)

\* ------------------------------------------------------------------ act
\* The record of one adapter act call: which adapter, for which agent id, on
\* which observation, with which sample flag, in which behaviour.
ActCall(k, a, o, sample, training) ==
    [adapter |-> k, agent |-> a, obs |-> o, sample |-> sample, training |-> training]

RECURSIVE IndividualActLoop_NoRestore(_, _, _, _, _)
\* Mutant: the adapter is switched to the mode's behaviour and never switched back.
IndividualActLoop_NoRestore(i, obs, sample, mode, acc) ==
    IF i > Len(agent_ids) THEN acc
    ELSE LET a == agent_ids[i]
             entered == IF mode = "none" THEN acc.agents
                        ELSE [acc.agents EXCEPT ![a] = ModeEnter(@, mode = "train")]
         IN IndividualActLoop_NoRestore(i + 1, obs, sample, mode,
                [agents |-> entered,
                 actions |-> (a :> AdapterAct(a, obs[a], sample)) @@ acc.actions,
                 calls |-> Append(acc.calls,
                                  ActCall(a, a, obs[a], sample, entered[a].training))])

RECURSIVE IndividualActLoop(_, _, _, _, _)
\* for agent in self.agent_ids: [with eval_mode/train_mode(self.agents[agent]):]
\*     actions[agent] = self.agents[agent].act(obs[agent], sample)
IndividualActLoop(i, obs, sample, mode, acc) ==
    IF i > Len(agent_ids) THEN acc
    ELSE LET a == agent_ids[i]
             prev == acc.agents[a].training
             entered == IF mode = "none" THEN acc.agents
                        ELSE [acc.agents EXCEPT ![a] = ModeEnter(@, mode = "train")]
             exited == IF mode = "none" THEN entered
                       ELSE [entered EXCEPT ![a] = ModeExit(@, prev)]
         IN IndividualActLoop(i + 1, obs, sample, mode,
                [agents |-> exited,
                 actions |-> (a :> AdapterAct(a, obs[a], sample)) @@ acc.actions,
                 calls |-> Append(acc.calls,
                                  ActCall(a, a, obs[a], sample, entered[a].training))])

\* Mutant: an unknown mode is treated like no mode.
IndividualAct_AnyMode(self, obs, sample, mode) ==
    LET r == IndividualActLoop(1, obs, sample, "none",
                 [agents |-> self.agents, actions |-> <<>>, calls |-> <<>>])
    IN Returned([self EXCEPT !.agents = r.agents], "act", r.actions, r.calls)

\* IndividualMultiAgent.act
IndividualAct(self, obs, sample, mode) ==
    IF mode \in {"eval", "train", "none"}
    THEN LET r == IndividualActLoop(1, obs, sample, mode,
                      [agents |-> self.agents, actions |-> <<>>, calls |-> <<>>])
         IN Returned([self EXCEPT !.agents = r.agents], "act", r.actions, r.calls)
    ELSE Raised(self, "act", "InvalidMode")

RECURSIVE SharedActLoop(_, _, _, _, _)
\* for agent in self.agent_ids: [with eval_mode(self.agent):]
\*     actions[agent] = self.agent.act(obs[agent], sample)
SharedActLoop(i, obs, sample, mode, acc) ==
    IF i > Len(agent_ids) THEN acc
    ELSE LET a == agent_ids[i]
             prev == acc.agents[SharedKey].training
             entered == IF mode = "none" THEN acc.agents
                        ELSE [acc.agents EXCEPT ![SharedKey] = ModeEnter(@, mode = "train")]
             exited == IF mode = "none" THEN entered
                       ELSE [entered EXCEPT ![SharedKey] = ModeExit(@, prev)]
         IN SharedActLoop(i + 1, obs, sample, mode,
                [agents |-> exited,
                 actions |-> (a :> AdapterAct(SharedKey, obs[a], sample)) @@ acc.actions,
                 calls |-> Append(acc.calls,
                                  ActCall(SharedKey, a, obs[a], sample,
                                          entered[SharedKey].training))])

\* SharedMultiAgent.act.  The train branch evaluates self.agents[agent], an
\* attribute SharedMultiAgent never sets: the first loop iteration raises
\* AttributeError before any scope is entered or any adapter acts.
SharedAct(self, obs, sample, mode) ==
    IF mode \in {"eval", "none"}
    THEN LET r == SharedActLoop(1, obs, sample, mode,
                      [agents |-> self.agents, actions |-> <<>>, calls |-> <<>>])
         IN Returned([self EXCEPT !.agents = r.agents], "act", r.actions, r.calls)
    ELSE IF mode = "train"
    THEN (IF Len(agent_ids) = 0 THEN Returned(self, "act", <<>>, <<>>)
          ELSE Raised(self, "act", "AttributeError"))
    ELSE Raised(self, "act", "InvalidMode")

\* MultiAgent.act, dispatched on the variant.
Act(self, obs, sample, mode) ==
    IF self.variant = "individual" THEN IndividualAct(self, obs, sample, mode)
    ELSE SharedAct(self, obs, sample, mode)

\* MultiAgent.reset, dispatched on the variant.
Reset(self) ==
    IF self.variant = "individual" THEN IndividualReset(self) ELSE SharedReset(self)

\* --------------------------------------------------------------- update
\* The record of one adapter update call: adapter.update(store, logger, step)
UpdateCall(k, store, logger, step) ==
    [adapter |-> k, store |-> store, logger |-> logger, step |-> step]

RECURSIVE IndividualUpdateLoop(_, _, _, _)
\* for agent in self.agent_ids:
\*     self.agents[agent].update(self.replay_buffers[agent], loggers[agent], step)
\* An update samples its store; sampling an empty store raises.
IndividualUpdateLoop(i, self, step, acc) ==
    IF i > Len(agent_ids) \/ acc.err # "none" THEN acc
    ELSE LET a == agent_ids[i]
         IN IF ReplayBufferSize(self.replay_buffers[a]) = 0
            THEN [acc EXCEPT !.err = "EmptyStore"]
            ELSE IndividualUpdateLoop(i + 1, self, step,
                     [agents |-> [acc.agents EXCEPT ![a] = AdapterUpdate(@)],
                      calls |-> Append(acc.calls, UpdateCall(a, a, a, step)),
                      err |-> "none"])

\* IndividualMultiAgent.update
IndividualUpdate(self, step) ==
    LET r == IndividualUpdateLoop(1, self, step,
                 [agents |-> self.agents, calls |-> <<>>, err |-> "none"])
    IN [Returned([self EXCEPT !.agents = r.agents], "update", <<>>, r.calls)
           EXCEPT !.err = r.err]

RECURSIVE SharedUpdateLoop(_, _, _, _)
\* for agent in self.agent_ids:
\*     self.agent.update(self.replay_buffer, loggers[agent], step)
SharedUpdateLoop(i, self, step, acc) ==
    IF i > Len(agent_ids) \/ acc.err # "none" THEN acc
    ELSE LET a == agent_ids[i]
         IN IF ReplayBufferSize(self.replay_buffers[SharedKey]) = 0
            THEN [acc EXCEPT !.err = "EmptyStore"]
            ELSE SharedUpdateLoop(i + 1, self, step,
                     [agents |-> [acc.agents EXCEPT ![SharedKey] = AdapterUpdate(@)],
                      calls |-> Append(acc.calls,
                                       UpdateCall(SharedKey, SharedKey, a, step)),
                      err |-> "none"])

\* Mutant: the shared learner is updated once per call, not once per agent id.
SharedUpdate_Once(self, step) ==
    IF ReplayBufferSize(self.replay_buffers[SharedKey]) = 0
    THEN Raised(self, "update", "EmptyStore")
    ELSE Returned([self EXCEPT !.agents[SharedKey] = AdapterUpdate(@)], "update",
                  <<>>, <<UpdateCall(SharedKey, SharedKey, agent_ids[1], step)>>)

\* SharedMultiAgent.update
SharedUpdate(self, step) ==
    LET r == SharedUpdateLoop(1, self, step,
                 [agents |-> self.agents, calls |-> <<>>, err |-> "none"])
    IN [Returned([self EXCEPT !.agents = r.agents], "update", <<>>, r.calls)
           EXCEPT !.err = r.err]

\* MultiAgent.update, dispatched on the variant.
Update(self, step) ==
    IF self.variant = "individual" THEN IndividualUpdate(self, step)
    ELSE SharedUpdate(self, step)

\* -------------------------------------------------------- add_to_buffer
RECURSIVE IndividualAddLoop(_, _, _, _, _, _, _, _)
\* for agent in self.agent_ids:
\*     self.replay_buffers[agent].add(obs[agent], actions[agent], rewards[agent],
\*                                    next_obs[agent], done, done_no_max)
IndividualAddLoop(i, bufs, obs, actions, rewards, next_obs, done, done_no_max) ==
    IF i > Len(agent_ids) THEN bufs
    ELSE LET a == agent_ids[i]
         IN IndividualAddLoop(i + 1,
                [bufs EXCEPT ![a] = ReplayBufferAdd(@, obs[a], actions[a], rewards[a],
                                                    next_obs[a], done, done_no_max)],
                obs, actions, rewards, next_obs, done, done_no_max)

\* Mutant: every agent's transition is written to the first agent's store.
IndividualAddToBuffer_FirstStore(self, obs, actions, rewards, next_obs, done, done_no_max) ==
    LET F[i \in 0..Len(agent_ids)] ==
            IF i = 0 THEN self.replay_buffers
            ELSE [F[i - 1] EXCEPT ![agent_ids[1]] =
                     ReplayBufferAdd(@, obs[agent_ids[i]], actions[agent_ids[i]],
                                     rewards[agent_ids[i]], next_obs[agent_ids[i]],
                                     done, done_no_max)]
    IN Returned([self EXCEPT !.replay_buffers = F[Len(agent_ids)]],
                "add_to_buffer", <<>>, <<>>)

\* IndividualMultiAgent.add_to_buffer
IndividualAddToBuffer(self, obs, actions, rewards, next_obs, done, done_no_max) ==
    Returned([self EXCEPT !.replay_buffers =
                  IndividualAddLoop(1, self.replay_buffers, obs, actions, rewards,
                                    next_obs, done, done_no_max)],
             "add_to_buffer", <<>>, <<>>)

RECURSIVE SharedAddLoop(_, _, _, _, _, _, _, _)
\* for agent in self.agent_ids:
\*     self.replay_buffer.add(obs[agent], actions[agent], rewards[agent],
\*                            next_obs[agent], done, done_no_max)
SharedAddLoop(i, bufs, obs, actions, rewards, next_obs, done, done_no_max) ==
    IF i > Len(agent_ids) THEN bufs
    ELSE LET a == agent_ids[i]
         IN SharedAddLoop(i + 1,
                [bufs EXCEPT ![SharedKey] =
                     ReplayBufferAdd(@, obs[a], actions[a], rewards[a],
                                     next_obs[a], done, done_no_max)],
                obs, actions, rewards, next_obs, done, done_no_max)

\* SharedMultiAgent.add_to_buffer
SharedAddToBuffer(self, obs, actions, rewards, next_obs, done, done_no_max) ==
    Returned([self EXCEPT !.replay_buffers =
                  SharedAddLoop(1, self.replay_buffers, obs, actions, rewards,
                                next_obs, done, done_no_max)],
             "add_to_buffer", <<>>, <<>>)

\* MultiAgent.add_to_buffer, dispatched on the variant.
AddToBuffer(self, obs, actions, rewards, next_obs, done, done_no_max) ==
    IF self.variant = "individual"
    THEN IndividualAddToBuffer(self, obs, actions, rewards, next_obs, done, done_no_max)
    ELSE SharedAddToBuffer(self, obs, actions, rewards, next_obs, done, done_no_max)

\* ----------------------------------------------------------- checkpoints
\* 'cp_{:d}'.format(step): the checkpoint directory's name.
CheckpointName(step) == <<"cp", step>>

\* IndividualMultiAgent.save_checkpoint: checkpoint.pt holds the step, the
\* models and every agent's optimizers; replay_buffers/<agent>.npz holds
\* each store's raw arrays.  Returns the checkpoints directory afterwards.
IndividualSaveCheckpoint(self, dir, step) ==
    (CheckpointName(step) :>
        [step |-> step,
         models |-> [a \in AgentSet |-> self.agents[a].params],
         optims |-> [a \in AgentSet |-> self.agents[a].optims],
         replay |-> [a \in AgentSet |-> Arrays(self.replay_buffers[a])]]) @@ dir

\* SharedMultiAgent.save_checkpoint: checkpoint.pt and one replay_buffer.npz.
SharedSaveCheckpoint(self, dir, step) ==
    (CheckpointName(step) :>
        [step |-> step,
         models |-> [k \in {SharedKey} |-> self.agents[k].params],
         optims |-> [k \in {SharedKey} |-> self.agents[k].optims],
         replay |-> [k \in {SharedKey} |-> Arrays(self.replay_buffers[k])]]) @@ dir

\* MultiAgent.save_checkpoint, dispatched on the variant.
SaveCheckpoint(self, dir, step) ==
    IF self.variant = "individual" THEN IndividualSaveCheckpoint(self, dir, step)
    ELSE SharedSaveCheckpoint(self, dir, step)

\* Length of a saved array.
ArrayLen(arr) == Cardinality(DOMAIN arr)

RECURSIVE ReplayLoop(_, _, _, _)
\* for i in range(n): read row i of every saved array and add it to the store.
\* Reading row i of an array of fewer than i+1 rows raises IndexError, after the
\* rows before it have been added.
ReplayLoop(i, n, data, acc) ==
    IF i >= n THEN acc
    ELSE IF i >= ArrayLen(data.obses) THEN [acc EXCEPT !.err = "IndexError"]
    ELSE ReplayLoop(i + 1, n, data,
             [buf |-> ReplayBufferAdd(acc.buf, data.obses[i], data.actions[i],
                                      data.rewards[i], data.next_obses[i],
                                      PyNot(data.not_dones[i]),
                                      PyNot(data.not_dones_no_max[i])),
              err |-> "none"])

RECURSIVE IndividualLoadLoop(_, _, _, _)
\* for agent in self.agent_ids: replay range(step) rows of <agent>.npz
IndividualLoadLoop(i, step, replay, acc) ==
    IF i > Len(agent_ids) \/ acc.err # "none" THEN acc
    ELSE LET a == agent_ids[i]
             r == ReplayLoop(0, step, replay[a], [buf |-> acc.bufs[a], err |-> "none"])
         IN IndividualLoadLoop(i + 1, step, replay,
                [bufs |-> [acc.bufs EXCEPT ![a] = r.buf], err |-> r.err])

\* Mutant: the stored rows are replayed whatever the run mode.
IndividualLoadCheckpoint_AlwaysReplay(self, dir, checkpoint, device) ==
    IF checkpoint \notin DOMAIN dir
    THEN Raised(self, "load_checkpoint", "FileNotFound")
    ELSE LET cp == dir[checkpoint]
             loaded == [a \in AgentSet |->
                           [self.agents[a] EXCEPT !.params = cp.models[a],
                                                  !.optims = cp.optims[a]]]
             r == IndividualLoadLoop(1, cp.step, cp.replay,
                      [bufs |-> self.replay_buffers, err |-> "none"])
         IN [self |-> [self EXCEPT !.agents = loaded, !.replay_buffers = r.bufs],
             op |-> "load_checkpoint", err |-> r.err, actions |-> <<>>,
             calls |-> <<>>,
             step |-> IF r.err = "none" THEN cp.step ELSE -1]

\* IndividualMultiAgent.load_checkpoint(self, dir, checkpoint, device)
IndividualLoadCheckpoint(self, dir, checkpoint, device) ==
    IF checkpoint \notin DOMAIN dir
    THEN Raised(self, "load_checkpoint", "FileNotFound")
    ELSE LET cp == dir[checkpoint]
             loaded == [a \in AgentSet |->
                           [self.agents[a] EXCEPT !.params = cp.models[a],
                                                  !.optims = cp.optims[a]]]
             r == IF self.mode = "train"
                  THEN IndividualLoadLoop(1, cp.step, cp.replay,
                           [bufs |-> self.replay_buffers, err |-> "none"])
                  ELSE [bufs |-> self.replay_buffers, err |-> "none"]
         IN [self |-> [self EXCEPT !.agents = loaded, !.replay_buffers = r.bufs],
             op |-> "load_checkpoint", err |-> r.err, actions |-> <<>>,
             calls |-> <<>>,
             step |-> IF r.err = "none" THEN cp.step ELSE -1]

\* SharedMultiAgent.load_checkpoint(self, dir, checkpoint, device)
SharedLoadCheckpoint(self, dir, checkpoint, device) ==
    IF checkpoint \notin DOMAIN dir
    THEN Raised(self, "load_checkpoint", "FileNotFound")
    ELSE LET cp == dir[checkpoint]
             loaded == [k \in {SharedKey} |->
                           [self.agents[k] EXCEPT !.params = cp.models[k],
                                                  !.optims = cp.optims[k]]]
             r == IF self.mode = "train"
                  THEN ReplayLoop(0, cp.step * Len(agent_ids), cp.replay[SharedKey],
                           [buf |-> self.replay_buffers[SharedKey], err |-> "none"])
                  ELSE [buf |-> self.replay_buffers[SharedKey], err |-> "none"]
         IN [self |-> [self EXCEPT !.agents = loaded,
                                   !.replay_buffers[SharedKey] = r.buf],
             op |-> "load_checkpoint", err |-> r.err, actions |-> <<>>,
             calls |-> <<>>,
             step |-> IF r.err = "none" THEN cp.step ELSE -1]

\* Parameters of load_checkpoint after self, in both variants.
LoadCheckpointParams == <<"dir", "checkpoint", "device">>

\* A call multi_agent.load_checkpoint(*args): Python binds the positional
\* arguments to the parameters and raises TypeError when a parameter without a
\* default is left unbound.
CallLoadCheckpoint(self, dir, args) ==
    IF Len(args) # Len(LoadCheckpointParams)
    THEN Raised(self, "load_checkpoint", "TypeError")
    ELSE IF self.variant = "individual"
    THEN IndividualLoadCheckpoint(self, dir, args[2], args[3])
    ELSE SharedLoadCheckpoint(self, dir, args[2], args[3])

\* ---------------------------------------------------------------- state
VARIABLES
    cfg,          \* the configuration object handed to the core
    multi_agent,  \* the controller: variant, mode, adapters, stores
    disk,         \* the checkpoints directory: checkpoint name -> its files
    atSave,       \* history: checkpoint name -> the stores when it was saved
    ret,          \* history: the last controller call, its arguments and result
    step,         \* the step counter (Workspace.step)
    nupd,         \* controller update calls made on this controller
    gen,          \* processes started so far
    pc,           \* position of the running process
    episode_step, \* train(): steps taken in the current episode
    done,         \* train(): the environment's done of the last step
    obs,          \* train(): the current observations
    actions,      \* train(): the actions selected for the coming step
    eval_episode, \* evaluate(): episodes completed in this pass
    eval_len,     \* evaluate(): environment steps taken in the current episode
    eval_from,    \* evaluate(): the caller ("main" or "train")
    iter_log,     \* history: the operations of the current loop iteration, in order
    saves,        \* history: save_checkpoint calls made by this process's train()
    eval_at,      \* history: the step counts at which train() started evaluate()
    train_from    \* history: the step counter when train() was entered, else -1

\* The Workspace's locals.
wsvars == <<episode_step, done, obs, actions, eval_episode, eval_len, eval_from>>

\* The history of the running process.
hvars == <<iter_log, saves, eval_at, train_from>>

vars == <<cfg, multi_agent, disk, atSave, ret, step, nupd, gen, pc, wsvars, hvars>>

\* Insertions a store has received so far.
Seen(ma) == Len(ma.replay_buffers[KeyOf(ma.variant, agent_ids[1])].added)

\* One entry of iter_log: the operation, the function that made it, the step
\* counter, the sample argument (act only) and the insertions the store had
\* received when it was made.
LogEntry(op, by, sample) ==
    [op |-> op, by |-> by, step |-> step, sample |-> sample, seen |-> Seen(multi_agent)]

\* The observations of environment time t: one per agent id.
Obs(t) == [a \in AgentSet |-> <<a, t>>]

\* The rewards of environment time t: one per agent id.
Rewards(t) == [a \in AgentSet |-> t + a]

\* env.action_space[agent].sample() for every agent id
RandomActions(t) == [a \in AgentSet |-> <<"random", a, t>>]

\* The (done, done_no_max) pairs the training loop can hand to add_to_buffer:
\* done_no_max is 0 or done.
DoneFlags == <<<<0, 0>>, <<1, 0>>, <<1, 1>>>>

\* The pairs taken in turn, by environment time.
FlagsAt(t) == DoneFlags[(t % Len(DoneFlags)) + 1]

Modes == {"none", "train", "eval", "test"}

\* What is remembered of a controller call: the result and the arguments.
Ret(r, args) ==
    [op |-> r.op, err |-> r.err, actions |-> r.actions, calls |-> r.calls,
     step |-> r.step, args |-> args]

NoCall ==
    [op |-> "none", err |-> "none", actions |-> <<>>, calls |-> <<>>,
     step |-> -1, args |-> [none |-> TRUE]]

\* ------------------------------------------- the controller's public surface
\* Init: a controller as Workspace.__init__ constructs it, nothing on disk.
Init ==
    /\ cfg \in [multi_agent_mode : Variants,
                mode : {"train", "eval"},
                replay_buffer_capacity : 1..MaxCap]
    /\ multi_agent = NewMultiAgent(cfg.multi_agent_mode, cfg.replay_buffer_capacity,
                                   cfg.mode)
    /\ disk = <<>>
    /\ atSave = <<>>
    /\ ret = NoCall
    /\ step = 0
    /\ nupd = 0
    /\ gen = 1
    /\ pc = "api"
    /\ episode_step = 0
    /\ done = 0
    /\ obs = Obs(0)
    /\ actions = <<>>
    /\ eval_episode = 0
    /\ eval_len = 0
    /\ eval_from = "none"
    /\ iter_log = <<>>
    /\ saves = 0
    /\ eval_at = <<>>
    /\ train_from = -1

\* multi_agent.reset()
ApiReset ==
    /\ pc = "api"
    /\ LET r == Reset(multi_agent)
       IN /\ multi_agent' = r.self
          /\ ret' = Ret(r, [none |-> TRUE])
    /\ UNCHANGED <<cfg, disk, atSave, step, nupd, gen, pc>>
    /\ UNCHANGED wsvars
    /\ UNCHANGED hvars

\* multi_agent.act(obs, sample, mode)
ApiAct ==
    /\ pc = "api"
    /\ \E sample \in BOOLEAN, mode \in Modes :
         LET r == Act(multi_agent, Obs(step), sample, mode)
         IN /\ multi_agent' = r.self
            /\ ret' = Ret(r, [obs |-> Obs(step), sample |-> sample, mode |-> mode])
    /\ UNCHANGED <<cfg, disk, atSave, step, nupd, gen, pc>>
    /\ UNCHANGED wsvars
    /\ UNCHANGED hvars

\* multi_agent.update(loggers, step)
ApiUpdate ==
    /\ pc = "api"
    /\ nupd < MaxUpdates
    /\ LET r == Update(multi_agent, step)
       IN /\ multi_agent' = r.self
          /\ ret' = Ret(r, [step |-> step])
    /\ nupd' = nupd + 1
    /\ UNCHANGED <<cfg, disk, atSave, step, gen, pc>>
    /\ UNCHANGED wsvars
    /\ UNCHANGED hvars

\* One add_to_buffer call of environment time `step` with flags f; the caller
\* then counts the step.
AddStep(f) ==
    LET r == AddToBuffer(multi_agent, Obs(step), RandomActions(step),
                         Rewards(step), Obs(step + 1), f[1], f[2])
    IN /\ multi_agent' = r.self
       /\ ret' = Ret(r, [obs |-> Obs(step), actions |-> RandomActions(step),
                         rewards |-> Rewards(step), next_obs |-> Obs(step + 1),
                         done |-> f[1], done_no_max |-> f[2]])
       /\ step' = step + 1

\* multi_agent.add_to_buffer(obs, actions, rewards, next_obs, done, done_no_max)
\* with one of two flag pairs, every pair being on offer within any two steps.
ApiAddToBuffer ==
    /\ pc = "api"
    /\ step < MaxAdds
    /\ \E f \in {FlagsAt(step), FlagsAt(step + 1)} : AddStep(f)
    /\ UNCHANGED <<cfg, disk, atSave, nupd, gen, pc>>
    /\ UNCHANGED wsvars
    /\ UNCHANGED hvars

\* add_to_buffer for one training step of the checkpoint scenario.
CkptAddToBuffer ==
    /\ pc = "api"
    /\ step < MaxAdds
    /\ AddStep(FlagsAt(step))
    /\ UNCHANGED <<cfg, disk, atSave, nupd, gen, pc>>
    /\ UNCHANGED wsvars
    /\ UNCHANGED hvars

\* An adapter's behaviour flag set from outside the controller
\* (torch.nn.Module.train(flag) on one of multi_agent's adapters).
ApiSetTraining ==
    /\ pc = "api"
    /\ \E k \in DOMAIN multi_agent.agents, flag \in BOOLEAN :
         /\ multi_agent.agents[k].training # flag
         /\ multi_agent' = [multi_agent EXCEPT !.agents[k].training = flag]
    /\ ret' = NoCall
    /\ UNCHANGED <<cfg, disk, atSave, step, nupd, gen, pc>>
    /\ UNCHANGED wsvars
    /\ UNCHANGED hvars

\* multi_agent.save_checkpoint(dir, step), the last call a process makes.
ApiSaveCheckpoint ==
    /\ pc = "api"
    /\ disk' = SaveCheckpoint(multi_agent, disk, step)
    /\ atSave' = (CheckpointName(step) :> multi_agent.replay_buffers) @@ atSave
    /\ ret' = [NoCall EXCEPT !.op = "save_checkpoint", !.args = [step |-> step]]
    /\ pc' = "exit"
    /\ UNCHANGED <<cfg, multi_agent, step, nupd, gen>>
    /\ UNCHANGED wsvars
    /\ UNCHANGED hvars

\* A new process constructs a fresh controller from the same configuration;
\* the checkpoints directory is what survives.
ApiRestart ==
    /\ pc = "exit"
    /\ gen < MaxProcesses
    /\ multi_agent' = NewMultiAgent(cfg.multi_agent_mode, cfg.replay_buffer_capacity,
                                    cfg.mode)
    /\ ret' = NoCall
    /\ step' = 0
    /\ nupd' = 0
    /\ gen' = gen + 1
    /\ pc' = "api"
    /\ UNCHANGED <<cfg, disk, atSave>>
    /\ UNCHANGED wsvars
    /\ UNCHANGED hvars

\* step = multi_agent.load_checkpoint(dir, name, device) on the fresh
\* controller, the caller taking over the returned step.
ApiLoadCheckpoint ==
    /\ pc = "api"
    /\ gen > 1
    /\ ret = NoCall /\ step = 0 /\ nupd = 0
    /\ \E name \in DOMAIN disk :
         LET r == CallLoadCheckpoint(multi_agent, disk, <<"checkpoints", name, "cpu">>)
         IN /\ multi_agent' = r.self
            /\ ret' = Ret(r, [checkpoint |-> name])
            /\ step' = IF r.err = "none" THEN r.step ELSE step
            /\ pc' = IF r.err = "none" THEN pc ELSE "crashed"
    /\ UNCHANGED <<cfg, disk, atSave, nupd, gen>>
    /\ UNCHANGED wsvars
    /\ UNCHANGED hvars

\* The controller's calls within one process.
Next ==
    \/ ApiReset
    \/ ApiAct
    \/ ApiUpdate
    \/ ApiAddToBuffer
    \/ ApiSetTraining

Spec == Init /\ [][Next]_vars

\* Training steps, a save, a fresh controller in a new process, a load.
NextCkpt ==
    \/ ApiUpdate
    \/ CkptAddToBuffer
    \/ ApiSaveCheckpoint
    \/ ApiRestart
    \/ ApiLoadCheckpoint

SpecCkpt == Init /\ [][NextCkpt]_vars

\* ======================================================================
\* The Workspace (run.py): construction, resume, train(), evaluate()
\* ======================================================================

\* The observations env.reset() returns, at step counter t.
ResetObs(t) == [a \in AgentSet |-> <<a, t, "reset">>]

\* The done values env.step can report for a step that makes the episode len
\* steps long: the environment ends every episode, at the latest MaxOverrun
\* steps past its horizon.
EnvDone(len) == IF len >= cfg.env_horizon + MaxOverrun THEN {1} ELSE {0, 1}

\* A first process, started with nothing to resume from.
InitRun ==
    /\ cfg \in [multi_agent_mode : Variants,
                mode : {"train", "eval"},
                replay_buffer_capacity : {1, MaxCap},
                num_train_steps : 0..MaxTrainSteps,
                num_seed_steps : 0..MaxSeedSteps,
                eval_frequency : 1..MaxEvalFrequency,
                num_eval_episodes : 1..MaxEvalEpisodes,
                env_horizon : 1..MaxHorizon,
                save_checkpoint : BOOLEAN,
                load_checkpoint : {FALSE},
                checkpoint_name : {CheckpointName(0)}]
    /\ multi_agent = NewMultiAgent(cfg.multi_agent_mode, cfg.replay_buffer_capacity,
                                   cfg.mode)
    /\ disk = <<>>
    /\ atSave = <<>>
    /\ ret = NoCall
    /\ step = 0
    /\ nupd = 0
    /\ gen = 1
    /\ pc = "start"
    /\ episode_step = 0
    /\ done = 0
    /\ obs = Obs(0)
    /\ actions = <<>>
    /\ eval_episode = 0
    /\ eval_len = 0
    /\ eval_from = "none"
    /\ iter_log = <<>>
    /\ saves = 0
    /\ eval_at = <<>>
    /\ train_from = -1

\* Workspace.__init__: construct the controller, set step to 0 and, when
\* cfg.load_checkpoint, take the step load_checkpoint(dir, name) returns.
WorkspaceInit ==
    /\ pc = "start"
    /\ LET fresh == NewMultiAgent(cfg.multi_agent_mode, cfg.replay_buffer_capacity,
                                  cfg.mode)
       IN IF cfg.load_checkpoint
          THEN LET r == CallLoadCheckpoint(fresh, disk,
                                           <<"checkpoints", cfg.checkpoint_name>>)
               IN /\ multi_agent' = r.self
                  /\ ret' = Ret(r, [checkpoint |-> cfg.checkpoint_name])
                  /\ step' = IF r.err = "none" THEN r.step ELSE 0
                  /\ pc' = IF r.err = "none" THEN "main" ELSE "crashed"
          ELSE /\ multi_agent' = fresh
               /\ ret' = NoCall
               /\ step' = 0
               /\ pc' = "main"
    /\ nupd' = 0
    /\ UNCHANGED <<cfg, disk, atSave, gen, wsvars>>
    /\ UNCHANGED hvars

\* main() in mode train, and train() up to its loop: reset the environment
\* and the controller.
TrainBegin ==
    /\ pc = "main"
    /\ cfg.mode = "train"
    /\ episode_step' = 0
    /\ done' = 0
    /\ obs' = ResetObs(step)
    /\ LET r == Reset(multi_agent)
       IN multi_agent' = r.self /\ ret' = Ret(r, [none |-> TRUE])
    /\ pc' = "loop"
    /\ train_from' = step
    /\ UNCHANGED <<cfg, disk, atSave, step, nupd, gen, actions, eval_episode,
                   eval_len, eval_from, iter_log, saves, eval_at>>

\* Mutant: the loop ends after its first iteration.
LoopTest_OneIteration ==
    /\ pc = "loop"
    /\ pc' = IF step < cfg.num_train_steps /\ step < 1 THEN "select" ELSE "save"
    /\ iter_log' = IF step < cfg.num_train_steps /\ step < 1 THEN <<>> ELSE iter_log
    /\ UNCHANGED <<cfg, multi_agent, disk, atSave, ret, step, nupd, gen, wsvars,
                   saves, eval_at, train_from>>

\* while self.step < self.cfg.num_train_steps
LoopTest ==
    /\ pc = "loop"
    /\ pc' = IF step < cfg.num_train_steps THEN "select" ELSE "save"
    /\ iter_log' = IF step < cfg.num_train_steps THEN <<>> ELSE iter_log
    /\ UNCHANGED <<cfg, multi_agent, disk, atSave, ret, step, nupd, gen, wsvars,
                   saves, eval_at, train_from>>

\* Mutant: after the action selection the loop goes on to env.step at once.
SelectAction_ThenEnvStep ==
    /\ pc = "select"
    /\ IF step < cfg.num_seed_steps
       THEN /\ actions' = RandomActions(step)
            /\ pc' = "envstep"
            /\ iter_log' = Append(iter_log, LogEntry("sample", "train", TRUE))
            /\ UNCHANGED <<multi_agent, ret>>
       ELSE LET r == Act(multi_agent, obs, TRUE, "eval")
            IN /\ multi_agent' = r.self
               /\ ret' = Ret(r, [obs |-> obs, sample |-> TRUE, mode |-> "eval"])
               /\ actions' = r.actions
               /\ iter_log' = Append(iter_log, LogEntry("act", "train", TRUE))
               /\ pc' = IF r.err = "none" THEN "envstep" ELSE "crashed"
    /\ UNCHANGED <<cfg, disk, atSave, step, nupd, gen, episode_step, done, obs,
                   eval_episode, eval_len, eval_from, saves, eval_at, train_from>>

\* Action selection: random during the seed steps, else
\* multi_agent.act(obs, sample=True, mode="eval").
SelectAction ==
    /\ pc = "select"
    /\ IF step < cfg.num_seed_steps
       THEN /\ actions' = RandomActions(step)
            /\ pc' = "update"
            /\ iter_log' = Append(iter_log, LogEntry("sample", "train", TRUE))
            /\ UNCHANGED <<multi_agent, ret>>
       ELSE LET r == Act(multi_agent, obs, TRUE, "eval")
            IN /\ multi_agent' = r.self
               /\ ret' = Ret(r, [obs |-> obs, sample |-> TRUE, mode |-> "eval"])
               /\ actions' = r.actions
               /\ iter_log' = Append(iter_log, LogEntry("act", "train", TRUE))
               /\ pc' = IF r.err = "none" THEN "update" ELSE "crashed"
    /\ UNCHANGED <<cfg, disk, atSave, step, nupd, gen, episode_step, done, obs,
                   eval_episode, eval_len, eval_from, saves, eval_at, train_from>>

\* Mutant: the update runs in every iteration, seed steps included.
RunUpdate_Unguarded ==
    /\ pc = "update"
    /\ LET r == Update(multi_agent, step)
       IN /\ multi_agent' = r.self
          /\ ret' = Ret(r, [step |-> step])
          /\ iter_log' = Append(iter_log, LogEntry("update", "train", FALSE))
          /\ pc' = IF r.err = "none" THEN "envstep" ELSE "crashed"
    /\ UNCHANGED <<cfg, disk, atSave, step, nupd, gen, wsvars, saves, eval_at, train_from>>

\* if self.step >= self.cfg.num_seed_steps: multi_agent.update(loggers, step)
RunUpdate ==
    /\ pc = "update"
    /\ IF step >= cfg.num_seed_steps
       THEN LET r == Update(multi_agent, step)
            IN /\ multi_agent' = r.self
               /\ ret' = Ret(r, [step |-> step])
               /\ iter_log' = Append(iter_log, LogEntry("update", "train", FALSE))
               /\ pc' = IF r.err = "none" THEN "envstep" ELSE "crashed"
       ELSE /\ pc' = "envstep"
            /\ UNCHANGED <<multi_agent, ret, iter_log>>
    /\ UNCHANGED <<cfg, disk, atSave, step, nupd, gen, wsvars, saves, eval_at, train_from>>

\* Mutant: the horizon is not looked at.
DoneNoMax_AlwaysDone(episode_step_, horizon, done_) == done_

\* done_no_max = 0 if episode_step + 1 == self.env.horizon else done
DoneNoMax(episode_step_, horizon, done_) ==
    IF episode_step_ + 1 = horizon THEN 0 ELSE done_

\* env.step(actions), done_no_max, add_to_buffer, and the counters.
EnvStep ==
    /\ pc = "envstep"
    /\ \E d \in EnvDone(episode_step + 1) :
         LET done_no_max == DoneNoMax(episode_step, cfg.env_horizon, d)
             next_obs == Obs(step + 1)
             r == AddToBuffer(multi_agent, obs, actions, Rewards(step), next_obs,
                              d, done_no_max)
         IN /\ multi_agent' = r.self
            /\ ret' = Ret(r, [obs |-> obs, actions |-> actions,
                              rewards |-> Rewards(step), next_obs |-> next_obs,
                              done |-> d, done_no_max |-> done_no_max])
            /\ done' = d
            /\ obs' = next_obs
    /\ episode_step' = episode_step + 1
    /\ step' = step + 1
    /\ iter_log' = iter_log \o <<LogEntry("env_step", "train", FALSE),
                                  LogEntry("add_to_buffer", "train", FALSE)>>
    /\ pc' = "episode"
    /\ UNCHANGED <<cfg, disk, atSave, nupd, gen, actions, eval_episode, eval_len,
                   eval_from, saves, eval_at, train_from>>

\* if done: log, and evaluate when step > 0 and step % eval_frequency == 0
EpisodeEnd ==
    /\ pc = "episode"
    /\ IF done = 0
       THEN pc' = "loop" /\ UNCHANGED <<eval_episode, eval_from, eval_at>>
       ELSE IF step > 0 /\ step % cfg.eval_frequency = 0
       THEN /\ pc' = "eval_episode" /\ eval_episode' = 0 /\ eval_from' = "train"
            /\ eval_at' = Append(eval_at, step)
       ELSE pc' = "episode_reset" /\ UNCHANGED <<eval_episode, eval_from, eval_at>>
    /\ UNCHANGED <<cfg, multi_agent, disk, atSave, ret, step, nupd, gen,
                   episode_step, done, obs, actions, eval_len, iter_log, saves, train_from>>

\* The end of the if done block: reset the environment and the controller,
\* clear done and episode_step.
EpisodeReset ==
    /\ pc = "episode_reset"
    /\ obs' = ResetObs(step)
    /\ LET r == Reset(multi_agent)
       IN multi_agent' = r.self /\ ret' = Ret(r, [none |-> TRUE])
    /\ done' = 0
    /\ episode_step' = 0
    /\ pc' = "loop"
    /\ UNCHANGED <<cfg, disk, atSave, step, nupd, gen, actions, eval_episode,
                   eval_len, eval_from>>
    /\ UNCHANGED hvars

\* main() in mode eval: workspace.evaluate()
MainEvaluate ==
    /\ pc = "main"
    /\ cfg.mode = "eval"
    /\ pc' = "eval_episode"
    /\ eval_episode' = 0
    /\ eval_from' = "main"
    /\ UNCHANGED <<cfg, multi_agent, disk, atSave, ret, step, nupd, gen,
                   episode_step, done, obs, actions, eval_len>>
    /\ UNCHANGED hvars

\* evaluate(): the head of an episode (env.reset, multi_agent.reset) or,
\* after the last episode, the logging and the return.
EvalEpisode ==
    /\ pc = "eval_episode"
    /\ IF eval_episode < cfg.num_eval_episodes
       THEN /\ LET r == Reset(multi_agent)
               IN multi_agent' = r.self /\ ret' = Ret(r, [none |-> TRUE])
            /\ eval_len' = 0
            /\ pc' = "eval_step"
       ELSE /\ pc' = IF eval_from = "train" THEN "episode_reset" ELSE "exit"
            /\ UNCHANGED <<multi_agent, ret, eval_len>>
    /\ UNCHANGED <<cfg, disk, atSave, step, nupd, gen, episode_step, done, obs,
                   actions, eval_episode, eval_from>>
    /\ UNCHANGED hvars

\* Mutant: the evaluation step also hands its transition to add_to_buffer.
EvalStep_Records ==
    /\ pc = "eval_step"
    /\ LET o == IF eval_len = 0 THEN ResetObs(eval_episode) ELSE Obs(eval_len)
           r == Act(multi_agent, o, FALSE, "eval")
       IN /\ ret' = Ret(r, [obs |-> o, sample |-> FALSE, mode |-> "eval"])
          /\ IF r.err # "none"
             THEN /\ pc' = "crashed"
                  /\ multi_agent' = r.self
                  /\ iter_log' = Append(iter_log, LogEntry("act", "evaluate", FALSE))
                  /\ UNCHANGED <<eval_len, eval_episode>>
             ELSE \E d \in EnvDone(eval_len + 1) :
                     /\ multi_agent' = AddToBuffer(r.self, o, r.actions,
                                            Rewards(eval_len), Obs(eval_len + 1),
                                            d, d).self
                     /\ eval_len' = eval_len + 1
                     /\ eval_episode' = IF d = 1 THEN eval_episode + 1 ELSE eval_episode
                     /\ iter_log' = iter_log \o
                            <<LogEntry("act", "evaluate", FALSE),
                              LogEntry("env_step", "evaluate", FALSE)>>
                     /\ pc' = IF d = 1 THEN "eval_episode" ELSE "eval_step"
    /\ UNCHANGED <<cfg, disk, atSave, step, nupd, gen, episode_step, done, obs,
                   actions, eval_from, saves, eval_at, train_from>>

\* evaluate(): one pass of while not done: act(obs, sample=False,
\* mode="eval"), env.step.
EvalStep ==
    /\ pc = "eval_step"
    /\ LET o == IF eval_len = 0 THEN ResetObs(eval_episode) ELSE Obs(eval_len)
           r == Act(multi_agent, o, FALSE, "eval")
       IN /\ multi_agent' = r.self
          /\ ret' = Ret(r, [obs |-> o, sample |-> FALSE, mode |-> "eval"])
          /\ IF r.err # "none"
             THEN /\ pc' = "crashed"
                  /\ iter_log' = Append(iter_log, LogEntry("act", "evaluate", FALSE))
                  /\ UNCHANGED <<eval_len, eval_episode>>
             ELSE \E d \in EnvDone(eval_len + 1) :
                     /\ eval_len' = eval_len + 1
                     /\ eval_episode' = IF d = 1 THEN eval_episode + 1 ELSE eval_episode
                     /\ iter_log' = iter_log \o
                            <<LogEntry("act", "evaluate", FALSE),
                              LogEntry("env_step", "evaluate", FALSE)>>
                     /\ pc' = IF d = 1 THEN "eval_episode" ELSE "eval_step"
    /\ UNCHANGED <<cfg, disk, atSave, step, nupd, gen, episode_step, done, obs,
                   actions, eval_from, saves, eval_at, train_from>>

\* Mutant: the checkpoint is written whatever cfg.save_checkpoint says.
FinalSave_Unconditional ==
    /\ pc = "save"
    /\ disk' = SaveCheckpoint(multi_agent, disk, step)
    /\ atSave' = (CheckpointName(step) :> multi_agent.replay_buffers) @@ atSave
    /\ ret' = [NoCall EXCEPT !.op = "save_checkpoint", !.args = [step |-> step]]
    /\ saves' = saves + 1
    /\ pc' = "exit"
    /\ UNCHANGED <<cfg, multi_agent, step, nupd, gen, wsvars, iter_log, eval_at, train_from>>

\* After the loop: if self.cfg.save_checkpoint: save_checkpoint(dir, self.step)
FinalSave ==
    /\ pc = "save"
    /\ IF cfg.save_checkpoint
       THEN /\ disk' = SaveCheckpoint(multi_agent, disk, step)
            /\ atSave' = (CheckpointName(step) :> multi_agent.replay_buffers) @@ atSave
            /\ ret' = [NoCall EXCEPT !.op = "save_checkpoint", !.args = [step |-> step]]
            /\ saves' = saves + 1
       ELSE UNCHANGED <<disk, atSave, ret, saves>>
    /\ pc' = "exit"
    /\ UNCHANGED <<cfg, multi_agent, step, nupd, gen, wsvars, iter_log, eval_at, train_from>>

\* A later process, configured to resume from a checkpoint on disk.
Resume ==
    /\ pc = "exit"
    /\ gen < MaxProcesses
    /\ \E name \in DOMAIN disk, m \in {"train", "eval"} :
         cfg' = [cfg EXCEPT !.load_checkpoint = TRUE, !.checkpoint_name = name,
                            !.mode = m]
    /\ gen' = gen + 1
    /\ pc' = "start"
    /\ iter_log' = <<>>
    /\ saves' = 0
    /\ eval_at' = <<>>
    /\ train_from' = -1
    /\ UNCHANGED <<multi_agent, disk, atSave, ret, step, nupd, wsvars>>

NextRun ==
    \/ WorkspaceInit
    \/ TrainBegin
    \/ LoopTest
    \/ SelectAction
    \/ RunUpdate
    \/ EnvStep
    \/ EpisodeEnd
    \/ EpisodeReset
    \/ MainEvaluate
    \/ EvalEpisode
    \/ EvalStep
    \/ FinalSave
    \/ Resume

SpecRun == InitRun /\ [][NextRun]_vars

\* The steps of a running process: everything but the start of a later one.
RunStep ==
    \/ WorkspaceInit
    \/ TrainBegin
    \/ LoopTest
    \/ SelectAction
    \/ RunUpdate
    \/ EnvStep
    \/ EpisodeEnd
    \/ EpisodeReset
    \/ MainEvaluate
    \/ EvalEpisode
    \/ EvalStep
    \/ FinalSave

\* A started process is a sequential program that keeps running: it takes its
\* next step whenever it has one.
SpecRunFair == SpecRun /\ WF_vars(RunStep)

\* ======================================================================
\* Properties of the controller's calls (specification Spec)
\* ======================================================================

\* The last min(n, C) transitions handed to a store, as a set.
LastAdded(buf) ==
    LET n == Len(buf.added)
    IN {buf.added[j] : j \in (IF n > buf.capacity THEN n - buf.capacity + 1 ELSE 1)..n}

Min(x, y) == IF x <= y THEN x ELSE y

\* C4: for every store of capacity C that has received n add calls, size() is
\* min(n, C), the cursor is n mod C, full holds iff n >= C, and the retrievable
\* transitions are exactly the last min(n, C) added.
C4_StoreBound ==
    \A k \in DOMAIN multi_agent.replay_buffers :
        LET buf == multi_agent.replay_buffers[k]
            n == Len(buf.added)
        IN /\ ReplayBufferSize(buf) = Min(n, buf.capacity)
           /\ buf.idx = n % buf.capacity
           /\ buf.full <=> (n >= buf.capacity)
           /\ Retrievable(buf) = LastAdded(buf)

\* C4 witness: a store that has wrapped and overwritten its oldest transition.
C4_Witness ==
    \E k \in DOMAIN multi_agent.replay_buffers :
        LET buf == multi_agent.replay_buffers[k]
        IN /\ Len(buf.added) > buf.capacity
           /\ buf.added[1] \notin Retrievable(buf)

\* The act modes the controller accepts.
ValidModes == {"none", "train", "eval"}

\* C5 (as claimed): for both variants and every mode in {none, train, eval},
\* act returns without error a map with exactly one action per agent id, each
\* produced by one adapter act call on that agent's observation with the given
\* sample flag.
C5_ActReturnsOnePerAgent ==
    (ret.op = "act" /\ ret.args.mode \in ValidModes) =>
        /\ ret.err = "none"
        /\ DOMAIN ret.actions = AgentSet
        /\ Len(ret.calls) = Len(agent_ids)
        /\ \A i \in 1..Len(agent_ids) :
              LET a == agent_ids[i]
                  c == ret.calls[i]
              IN /\ c.agent = a
                 /\ c.adapter = KeyOf(multi_agent.variant, a)
                 /\ c.obs = ret.args.obs[a]
                 /\ c.sample = ret.args.sample
                 /\ ret.actions[a] = AdapterAct(c.adapter, c.obs, c.sample)

\* The adapters' behaviour flags.
Flags(ma) == [k \in DOMAIN ma.agents |-> ma.agents[k].training]

\* C6: an act call leaves every adapter's behaviour flag as it was; while an
\* adapter acts it is in evaluation behaviour under mode eval, in training
\* behaviour under mode train, and in its own behaviour under mode none.
C6_ModeScoped ==
    [][ret'.op = "act" =>
         /\ Flags(multi_agent') = Flags(multi_agent)
         /\ \A i \in 1..Len(ret'.calls) :
               LET c == ret'.calls[i]
               IN /\ ret'.args.mode = "eval" => ~c.training
                  /\ ret'.args.mode = "train" => c.training
                  /\ ret'.args.mode = "none" =>
                        c.training = multi_agent.agents[c.adapter].training]_vars

\* C6 witness: after an act call an adapter that acted in one behaviour is
\* back in the other.
C6_Witness ==
    /\ ret.op = "act"
    /\ ret.err = "none"
    /\ \E i \in 1..Len(ret.calls) :
          ret.calls[i].training # multi_agent.agents[ret.calls[i].adapter].training

\* C7: act with a mode other than none, train, eval raises the invalid-mode
\* error, calls no adapter and changes nothing of the controller.
C7_InvalidMode ==
    [][(ret'.op = "act" /\ ret'.args.mode \notin ValidModes) =>
         /\ ret'.err = "InvalidMode"
         /\ ret'.calls = <<>>
         /\ ret'.actions = <<>>
         /\ multi_agent' = multi_agent]_vars

\* C7 witness: an act call with an unknown mode has raised.
C7_Witness ==
    /\ ret.op = "act"
    /\ ret.args.mode \notin ValidModes
    /\ ret.err = "InvalidMode"

\* C8: an update call that returns has issued exactly |agents| adapter
\* updates, in agent-id order: in the Individual variant agent a's on a's own
\* adapter, store and logger; in the Shared variant all on the shared adapter
\* and the shared store, the i-th with the i-th agent's logger.
C8_UpdateFanOut ==
    (ret.op = "update" /\ ret.err = "none") =>
        /\ Len(ret.calls) = Len(agent_ids)
        /\ \A i \in 1..Len(agent_ids) :
              ret.calls[i] =
                  IF multi_agent.variant = "individual"
                  THEN UpdateCall(agent_ids[i], agent_ids[i], agent_ids[i], ret.args.step)
                  ELSE UpdateCall(SharedKey, SharedKey, agent_ids[i], ret.args.step)

\* C8 witness: a Shared update call has returned, the shared adapter having
\* been updated more than once.
C8_Witness ==
    /\ ret.op = "update"
    /\ ret.err = "none"
    /\ multi_agent.variant = "shared"
    /\ multi_agent.agents[SharedKey].params = Len(agent_ids)
    /\ Len(agent_ids) > 1

\* The transition add_to_buffer builds for agent a from its arguments.
ArgTransition(args, a) ==
    Transition(args.obs[a], args.actions[a], args.rewards[a], args.next_obs[a],
               args.done, args.done_no_max)

\* C9: an add_to_buffer call hands each store exactly these transitions, all
\* with the call's done and done_no_max: in the Individual variant agent a's
\* store gets a's transition and nothing else; in the Shared variant the shared
\* store gets every agent's transition, in agent-id order.
C9_AddToBuffer ==
    [][(ret'.op = "add_to_buffer" /\ step' = step + 1) =>
         IF multi_agent.variant = "individual"
         THEN \A a \in AgentSet :
                 multi_agent'.replay_buffers[a].added =
                     Append(multi_agent.replay_buffers[a].added,
                            ArgTransition(ret'.args, a))
         ELSE multi_agent'.replay_buffers[SharedKey].added =
                  multi_agent.replay_buffers[SharedKey].added \o
                      [i \in 1..Len(agent_ids) |->
                          ArgTransition(ret'.args, agent_ids[i])]]_vars

\* C9 witness: an add_to_buffer call with done set and done_no_max clear has
\* been made after an earlier one.
C9_Witness ==
    /\ ret.op = "add_to_buffer"
    /\ step >= 2
    /\ ret.args.done = 1
    /\ ret.args.done_no_max = 0

\* C10: a reset call resets every adapter of the controller exactly once: N
\* resets, one per adapter, in the Individual variant; one in the Shared.
C10_ResetOncePerAdapter ==
    ret.op = "reset" =>
        /\ Len(ret.calls) = Cardinality(DOMAIN multi_agent.agents)
        /\ \A k \in DOMAIN multi_agent.agents :
              Cardinality({i \in 1..Len(ret.calls) : ret.calls[i].adapter = k}) = 1

\* C10 witness: the Shared controller, with several agent ids, has been reset.
C10_Witness ==
    /\ ret.op = "reset"
    /\ multi_agent.variant = "shared"
    /\ Len(agent_ids) > 1

\* ======================================================================
\* Save, fresh controller, load (specification SpecCkpt)
\* ======================================================================

\* The store fields a round trip has to reproduce.
StoreState(buf) ==
    [idx |-> buf.idx, full |-> buf.full, size |-> ReplayBufferSize(buf),
     arrays |-> Arrays(buf)]

\* The stores of the loading controller equal the stores at save time.
StoresRestored(name) ==
    \A k \in DOMAIN multi_agent.replay_buffers :
        /\ StoreState(multi_agent.replay_buffers[k]) = StoreState(atSave[name][k])
        /\ Retrievable(multi_agent.replay_buffers[k]) = LastAdded(atSave[name][k])

\* C1 (as claimed): in run mode train, a load by a fresh controller of a
\* checkpoint saved after k training steps completes, whatever k, and leaves
\* every store with the size, cursor, full flag and array contents it had at
\* save time, the last min(k, C) inserted transitions being the retrievable ones.
C1_RoundTrip ==
    (ret.op = "load_checkpoint" /\ multi_agent.mode = "train") =>
        /\ ret.err = "none"
        /\ ret.step = disk[ret.args.checkpoint].step
        /\ StoresRestored(ret.args.checkpoint)

\* What does hold of the round trip: it succeeds exactly when no store had
\* wrapped past its capacity (k <= C), and then reproduces every store.
RoundTripWithinCapacity ==
    (ret.op = "load_checkpoint" /\ multi_agent.mode = "train") =>
        LET k == disk[ret.args.checkpoint].step
        IN IF k <= cfg.replay_buffer_capacity
           THEN ret.err = "none" /\ ret.step = k /\ StoresRestored(ret.args.checkpoint)
           ELSE ret.err = "IndexError"

\* Insertions a store has received when the step counter is s.
InsertionsAt(variant, s) == IF variant = "individual" THEN s ELSE s * Len(agent_ids)

\* The store fields a load could touch.
StoreFrame(buf) == [idx |-> buf.idx, full |-> buf.full, arrays |-> Arrays(buf)]

\* C11: a load_checkpoint call on a controller whose run mode is not train
\* completes, returns the saved step, sets every adapter's parameters and
\* optimizer state to the checkpoint's, and adds nothing to any store: every
\* store's arrays, cursor and full flag are as before the call.
C11_EvalLoadLeavesStores ==
    [][(ret'.op = "load_checkpoint" /\ ret.op # "load_checkpoint"
            /\ multi_agent.mode # "train") =>
          LET cp == disk[ret'.args.checkpoint]
          IN /\ ret'.err = "none"
             /\ ret'.step = cp.step
             /\ step' = cp.step
             /\ \A k \in DOMAIN multi_agent'.agents :
                   /\ multi_agent'.agents[k].params = cp.models[k]
                   /\ multi_agent'.agents[k].optims = cp.optims[k]
             /\ \A k \in DOMAIN multi_agent.replay_buffers :
                   /\ StoreFrame(multi_agent'.replay_buffers[k]) =
                          StoreFrame(multi_agent.replay_buffers[k])
                   /\ multi_agent'.replay_buffers[k].added =
                          multi_agent.replay_buffers[k].added]_vars

\* C11 witness: an evaluation-only Individual controller has loaded a
\* checkpoint saved after training steps and an update, and its stores are empty.
C11_Witness ==
    /\ ret.op = "load_checkpoint"
    /\ multi_agent.mode = "eval"
    /\ multi_agent.variant = "individual"
    /\ ret.step >= 2
    /\ \A k \in DOMAIN multi_agent.agents : multi_agent.agents[k].params >= 1
    /\ \A k \in DOMAIN multi_agent.replay_buffers :
          ReplayBufferSize(multi_agent.replay_buffers[k]) = 0

\* Rows a load replays from each saved archive of a checkpoint.
ExpectedReplayCount(name) == InsertionsAt(cfg.multi_agent_mode, disk[name].step)

\* C12 (as claimed): a train-mode load of a checkpoint whose saved arrays are
\* not as long as the expected replay count fails with a checkpoint-corrupt
\* error, and leaves no partially reconstructed store in use.
C12_LengthMismatchIsCorrupt ==
    (ret.op = "load_checkpoint" /\ multi_agent.mode = "train"
        /\ \E k \in DOMAIN disk[ret.args.checkpoint].replay :
              ArrayLen(disk[ret.args.checkpoint].replay[k].obses) #
                  ExpectedReplayCount(ret.args.checkpoint)) =>
        /\ ret.err = "CheckpointCorrupt"
        /\ pc = "crashed"

\* What the code does on a length mismatch: arrays longer than the replay
\* count are accepted without an error, shorter ones end the load with an
\* IndexError raised from the replay loop.
LengthMismatchOutcome ==
    (ret.op = "load_checkpoint" /\ multi_agent.mode = "train") =>
        \A k \in DOMAIN disk[ret.args.checkpoint].replay :
            LET len == ArrayLen(disk[ret.args.checkpoint].replay[k].obses)
                n == ExpectedReplayCount(ret.args.checkpoint)
            IN /\ len >= n => ret.err = "none"
               /\ len < n => ret.err = "IndexError" /\ pc = "crashed"

\* ======================================================================
\* Resuming a run (specification SpecRun)
\* ======================================================================

\* C2 (as claimed): when resuming is configured, the load_checkpoint call
\* Workspace.__init__ makes succeeds and returns the step stored at save time,
\* and the workspace's step counter has that value before training starts.
C2_ResumeReturnsSavedStep ==
    ret.op = "load_checkpoint" =>
        /\ ret.err = "none"
        /\ ret.step = disk[cfg.checkpoint_name].step
        /\ step = disk[cfg.checkpoint_name].step
        /\ pc = "main"

\* At every boundary of the training loop each store has received step
\* (Individual) or step * |agents| (Shared) insertions since its creation.
InsertionCountAtLoop ==
    pc = "loop" =>
        \A k \in DOMAIN multi_agent.replay_buffers :
            Len(multi_agent.replay_buffers[k].added) =
                InsertionsAt(multi_agent.variant, step)

\* C3 (as claimed): the insertion count equals the step counter (times
\* |agents| for Shared) at every loop boundary of a fresh or resumed run, and
\* the insertions load_checkpoint replays for a checkpoint are as many as the
\* store had received before the save.
C3_InsertionCount ==
    /\ InsertionCountAtLoop
    /\ (ret.op = "load_checkpoint" /\ multi_agent.mode = "train") =>
          \A k \in DOMAIN multi_agent.replay_buffers :
              Len(multi_agent.replay_buffers[k].added) =
                  Len(atSave[cfg.checkpoint_name][k].added)

\* ======================================================================
\* The training loop (specification SpecRun)
\* ======================================================================

\* The transition the last add stored, per store.
LastStored(buf) == buf.added[Len(buf.added)]

\* C13: every transition the training loop writes has done_no_max 0 when the
\* step makes the episode exactly horizon steps long, whatever done the
\* environment reported, and done_no_max equal to done when the step leaves
\* the episode shorter than the horizon.
C13_HorizonTruncation ==
    pc = "episode" =>
        /\ ret.op = "add_to_buffer"
        /\ ret.args.done = done
        /\ episode_step = cfg.env_horizon => ret.args.done_no_max = 0
        /\ episode_step < cfg.env_horizon => ret.args.done_no_max = done
        /\ \A k \in DOMAIN multi_agent.replay_buffers :
              LET t == LastStored(multi_agent.replay_buffers[k])
              IN /\ t.not_done = PyNot(ret.args.done)
                 /\ t.not_done_no_max = PyNot(ret.args.done_no_max)

\* C13 witness: the environment reported done on the step that made the
\* episode horizon steps long, after an episode that had ended before its
\* horizon with done_no_max set.
C13_Witness ==
    /\ pc = "episode"
    /\ episode_step = cfg.env_horizon
    /\ done = 1
    /\ ret.args.done_no_max = 0
    /\ \E k \in DOMAIN multi_agent.replay_buffers :
          \E i \in 1..Len(multi_agent.replay_buffers[k].added) :
              multi_agent.replay_buffers[k].added[i].not_done_no_max = PyNot(1)

\* C14: a train() that returns with checkpointing enabled has called
\* save_checkpoint exactly once, after its last loop iteration, with the final
\* step counter, and the checkpoint cp_<step> holding that step is on disk; a
\* process with checkpointing disabled never calls it, and no process calls it
\* before its loop has ended.
C14_FinalCheckpoint ==
    /\ saves > 0 => (pc = "exit" /\ cfg.save_checkpoint /\ cfg.mode = "train")
    /\ (pc = "exit" /\ cfg.mode = "train" /\ cfg.save_checkpoint) =>
          /\ saves = 1
          /\ ret.op = "save_checkpoint"
          /\ ret.args.step = step
          /\ step >= cfg.num_train_steps
          /\ CheckpointName(step) \in DOMAIN disk
          /\ disk[CheckpointName(step)].step = step
          /\ atSave[CheckpointName(step)] = multi_agent.replay_buffers

\* C14 witness: a train() with checkpointing enabled has returned after
\* several iterations and its one checkpoint is on disk.
C14_Witness ==
    /\ pc = "exit"
    /\ cfg.mode = "train"
    /\ cfg.save_checkpoint
    /\ saves = 1
    /\ step >= 2
    /\ CheckpointName(step) \in DOMAIN disk

\* Positions of iter_log holding operation op made by function by.
Entries(op, by) ==
    {i \in 1..Len(iter_log) : iter_log[i].op = op /\ iter_log[i].by = by}

\* Positions of iter_log holding operation op, whoever made it.
AllEntries(op) == {i \in 1..Len(iter_log) : iter_log[i].op = op}

\* The step counter at which the logged iteration began.
IterStep == iter_log[1].step

\* The logged iteration has made its add_to_buffer call.
IterComplete == Entries("add_to_buffer", "train") # {}

\* WARMUP (0), LEARNING (1) or DONE (2), by the step counter.
Phase ==
    IF step >= cfg.num_train_steps THEN 2
    ELSE IF step < cfg.num_seed_steps THEN 0 ELSE 1

\* While a process runs, the step counter and the phase never go back.
PhaseNeverBack ==
    [][pc # "start" => (step' >= step /\ Phase' >= Phase)]_vars

\* C15 (as claimed): an iteration begun with step < num_seed_steps holds no
\* controller act and no update; one begun with num_seed_steps <= step <
\* num_train_steps holds exactly one act with sample=true and exactly one
\* update; no act, update, environment step or add_to_buffer is made once
\* step >= num_train_steps; the phase never moves backwards.
C15_PhasesAsClaimed ==
    /\ [](cfg.mode = "train" /\ iter_log # <<>> =>
            /\ IterStep < cfg.num_seed_steps =>
                  AllEntries("act") = {} /\ AllEntries("update") = {}
            /\ (IterStep >= cfg.num_seed_steps /\ IterComplete) =>
                  /\ Cardinality({i \in AllEntries("act") : iter_log[i].sample}) = 1
                  /\ Cardinality(AllEntries("update")) = 1
            /\ \A i \in 1..Len(iter_log) :
                  iter_log[i].step >= cfg.num_train_steps =>
                      iter_log[i].op \notin {"act", "update", "env_step",
                                             "add_to_buffer"})
    /\ PhaseNeverBack

\* C15 (amended): the training loop itself draws the actions of an iteration
\* begun with step < num_seed_steps from the action space and calls neither
\* act nor update in it; in an iteration begun with num_seed_steps <= step <
\* num_train_steps it calls act once, with sample=true, and update once; it
\* makes no act, update, environment step or add_to_buffer once step >=
\* num_train_steps; the phase never moves backwards.  The act calls and
\* environment steps of an evaluation pass started from an iteration, in any
\* phase, all have sample=false.
C15_Phases ==
    /\ [](cfg.mode = "train" /\ iter_log # <<>> =>
            /\ IterStep < cfg.num_seed_steps =>
                  /\ Entries("act", "train") = {} /\ Entries("update", "train") = {}
                  /\ Entries("sample", "train") = {1}
            /\ IterStep >= cfg.num_seed_steps =>
                  /\ Entries("sample", "train") = {}
                  /\ Entries("act", "train") = {1}
                  /\ iter_log[1].sample
                  /\ Cardinality(Entries("update", "train")) <= 1
                  /\ IterComplete => Cardinality(Entries("update", "train")) = 1
            /\ \A i \in 1..Len(iter_log) :
                  /\ iter_log[i].by = "train" => iter_log[i].step < cfg.num_train_steps
                  /\ iter_log[i].by = "evaluate" =>
                        /\ iter_log[i].op \in {"act", "env_step"}
                        /\ ~iter_log[i].sample)
    /\ PhaseNeverBack

\* C15 witness: a training run has passed through a seed-step iteration and
\* completed a learning iteration, and the loop has ended.
C15_Witness ==
    /\ cfg.mode = "train"
    /\ pc = "save"
    /\ cfg.num_seed_steps >= 1
    /\ step > cfg.num_seed_steps
    /\ IterStep >= cfg.num_seed_steps
    /\ IterComplete
    /\ Entries("act", "train") = {1}

\* The training loop's own operations of the logged iteration, in order.
TrainOps == SelectSeq(iter_log, LAMBDA e : e.by = "train")

\* The reference order of a learning iteration.
LearningOrder == <<"act", "update", "env_step", "add_to_buffer">>

\* The environment time a stored transition was observed at.
TimeOf(tr) == tr.obs[2]

\* C16: the operations of a learning iteration occur in the order act,
\* update, environment step, add_to_buffer, all at the iteration's step t;
\* when act and update of step t are called every store has received the
\* insertions of all steps before t (add_to_buffer of step t-1 has completed)
\* and holds no transition of step t.
C16_StepOrder ==
    /\ (cfg.mode = "train" /\ iter_log # <<>> /\ IterStep >= cfg.num_seed_steps) =>
          /\ Len(TrainOps) <= Len(LearningOrder)
          /\ \A i \in 1..Len(TrainOps) :
                /\ TrainOps[i].op = LearningOrder[i]
                /\ TrainOps[i].step = IterStep
                /\ TrainOps[i].seen = InsertionsAt(cfg.multi_agent_mode, IterStep)
    /\ pc \in {"select", "update", "envstep"} =>
          \A k \in DOMAIN multi_agent.replay_buffers :
              LET added == multi_agent.replay_buffers[k].added
              IN /\ Len(added) = InsertionsAt(cfg.multi_agent_mode, step)
                 /\ {TimeOf(added[i]) : i \in 1..Len(added)} = 0..(step - 1)

\* C16 witness: a learning iteration of a step after the first has made its
\* four operations, its update having had a non-empty store to look at.
C16_Witness ==
    /\ cfg.mode = "train"
    /\ pc = "episode"
    /\ iter_log # <<>>
    /\ IterStep >= cfg.num_seed_steps
    /\ IterStep >= 1
    /\ Len(TrainOps) = Len(LearningOrder)
    /\ TrainOps[2].seen >= 1

\* C17 (as claimed): whenever the training loop invokes the controller's
\* update, the stores it samples from hold at least one transition, so no
\* update ends in the empty-store error, whatever the configuration.
C17_NoUpdateOnEmptyStore ==
    /\ \A i \in Entries("update", "train") : iter_log[i].seen >= 1
    /\ ret.op = "update" =>
          /\ ret.err # "EmptyStore"
          /\ \A k \in DOMAIN multi_agent.replay_buffers :
                ReplayBufferSize(multi_agent.replay_buffers[k]) >= 1

\* What holds instead: an update is invoked on an empty store exactly in the
\* iteration of step 0 of a run with num_seed_steps = 0, and that run ends there.
UpdateOnEmptyStoreOnlyUnseeded ==
    \A i \in Entries("update", "train") :
        iter_log[i].seen = 0 <=>
            (cfg.num_seed_steps = 0 /\ iter_log[i].step = 0 /\ pc = "crashed"
                /\ ret.err = "EmptyStore")

\* load_checkpoint is called only before the first loop iteration and
\* save_checkpoint only after the last.
LoadFirstSaveLast ==
    /\ ret.op = "load_checkpoint" => (pc \in {"main", "crashed"} /\ iter_log = <<>>)
    /\ saves > 0 =>
          (pc = "exit" /\ ret.op = "save_checkpoint" /\ step >= cfg.num_train_steps)

\* C18 (as claimed): load_checkpoint is called only before the first
\* iteration and save_checkpoint only after the last, and when save_checkpoint
\* is called no episode is in progress: the episode step count is 0.
C18_NeverMidEpisode ==
    /\ LoadFirstSaveLast
    /\ saves > 0 => episode_step = 0

\* C18 (amended): load_checkpoint is called only before the first iteration
\* and save_checkpoint only after the last.  When save_checkpoint is called an
\* episode may be in progress: the episode step count is 0 if the last
\* iteration ended an episode (the environment has been reset) or no iteration
\* ran, and otherwise counts the steps of the unfinished episode, at most as
\* many as the loop ran.
C18_SaveAtLoopEnd ==
    /\ LoadFirstSaveLast
    /\ saves > 0 =>
          /\ done = 0
          /\ episode_step \in 0..step
          /\ episode_step = 0 <=> obs = ResetObs(step)
          /\ episode_step > 0 <=> obs = Obs(step)

\* C18 witness: save_checkpoint has been called while an episode of two steps
\* was in progress.
C18_Witness ==
    /\ saves = 1
    /\ pc = "exit"
    /\ episode_step = 2
    /\ obs = Obs(step)

\* ======================================================================
\* Evaluation (specification SpecRun)
\* ======================================================================

\* The process is inside evaluate().
InEvaluate == pc \in {"eval_episode", "eval_step"}

\* What a learning update changes of an adapter.
Learned(ma) ==
    [k \in DOMAIN ma.agents |-> <<ma.agents[k].params, ma.agents[k].optims>>]

\* C19: every step of an evaluation pass leaves every store (arrays, cursor,
\* full flag, insertion history), every adapter's parameters and optimizer
\* state and the step counter as they were, makes no update and no
\* add_to_buffer call, and every act call it makes has sample=false and
\* mode=eval.
C19_EvaluateFrame ==
    [][InEvaluate =>
          /\ multi_agent'.replay_buffers = multi_agent.replay_buffers
          /\ Learned(multi_agent') = Learned(multi_agent)
          /\ step' = step
          /\ nupd' = nupd
          /\ ret' # ret =>
                /\ ret'.op \in {"reset", "act"}
                /\ ret'.op = "act" =>
                      (ret'.args.sample = FALSE /\ ret'.args.mode = "eval")
          /\ \A i \in (Len(iter_log) + 1)..Len(iter_log') :
                /\ iter_log'[i].op \in {"act", "env_step"}
                /\ iter_log'[i].sample = FALSE]_vars

\* C19 witness: an evaluation pass started by train() with transitions in the
\* stores and after an update has run all its episodes and is about to return.
C19_Witness ==
    /\ pc = "eval_episode"
    /\ eval_from = "train"
    /\ eval_episode = cfg.num_eval_episodes
    /\ ret.op = "act"
    /\ ret.args.sample = FALSE
    /\ step >= 2
    /\ \A k \in DOMAIN multi_agent.agents : multi_agent.agents[k].params >= 1
    /\ \A k \in DOMAIN multi_agent.replay_buffers :
          ReplayBufferSize(multi_agent.replay_buffers[k]) >= 1

\* Evaluation passes train() has started at step count m.
PassesAt(m) == Cardinality({i \in 1..Len(eval_at) : eval_at[i] = m})

\* C20 (as claimed): between iterations and after the loop, every positive
\* multiple of eval_frequency the step counter has reached has had exactly one
\* evaluation pass at that step count, and no pass has run at any other count.
C20_PeriodicEvaluation ==
    (cfg.mode = "train" /\ pc \in {"loop", "save", "exit"}) =>
        \A m \in 1..step :
            PassesAt(m) = IF m % cfg.eval_frequency = 0 THEN 1 ELSE 0

\* What holds instead: passes run only at positive multiples of
\* eval_frequency, at most one per step count, in increasing order, and only
\* from an iteration whose step ended an episode.
EvaluationOnlyAtEpisodeEnd ==
    /\ \A i \in 1..Len(eval_at) :
          /\ eval_at[i] > 0 /\ eval_at[i] <= step
          /\ eval_at[i] % cfg.eval_frequency = 0
          /\ \A j \in 1..(i - 1) : eval_at[j] < eval_at[i]
    /\ (InEvaluate /\ eval_from = "train") =>
          (done = 1 /\ eval_at # <<>> /\ eval_at[Len(eval_at)] = step)

\* ======================================================================
\* Termination of train() (specification SpecRun)
\* ======================================================================

Max(a, b) == IF a >= b THEN a ELSE b

\* Within train() the step counter changes only in the step that completes an
\* iteration, and then by exactly 1.
StepByOne ==
    [][(train_from >= 0 /\ train_from' >= 0) =>
          step' = IF pc = "envstep" THEN step + 1 ELSE step]_vars

\* C21 (as claimed): the step counter grows by exactly 1 per training
\* iteration and never decreases; a train() entered with counter s0 does not
\* stop before it returns, returns with the counter equal to
\* max(s0, num_train_steps), and runs no iteration when s0 >= num_train_steps
\* (every episode of the environment here ends within its horizon plus
\* MaxOverrun steps).
C21_Termination ==
    /\ StepByOne
    /\ [](train_from >= 0 =>
            /\ pc = "exit" \/ ENABLED RunStep
            /\ pc = "exit" => step = Max(train_from, cfg.num_train_steps)
            /\ train_from >= cfg.num_train_steps => iter_log = <<>>)
    /\ train_from >= 0 ~>
          (pc = "exit" /\ step = Max(train_from, cfg.num_train_steps))

\* What holds instead: train() stops short of its return only in the update of
\* step 0 of a run with num_seed_steps = 0; every other train() that has
\* stopped has returned, with the counter at max(s0, num_train_steps).
TerminationUnlessUnseeded ==
    train_from >= 0 =>
        /\ pc = "exit" => step = Max(train_from, cfg.num_train_steps)
        /\ train_from >= cfg.num_train_steps => iter_log = <<>>
        /\ ~(pc = "exit" \/ ENABLED RunStep) =>
              /\ pc = "crashed"
              /\ cfg.num_seed_steps = 0
              /\ step = 0
              /\ ret.op = "update" /\ ret.err = "EmptyStore"
        /\ (cfg.num_seed_steps = 0 /\ cfg.num_train_steps > train_from) =>
              pc # "exit"

\* A train() of a run with num_seed_steps >= 1 returns, with the counter at
\* max(s0, num_train_steps).
TerminatesWhenSeeded ==
    (train_from >= 0 /\ cfg.num_seed_steps >= 1) ~>
        (pc = "exit" /\ step = Max(train_from, cfg.num_train_steps))

====
